---- MODULE Spec2Model ----
(***************************************************************************)
(* Model of the two programs of the repository:                            *)
(*   src/data_loader.py  the batch loader (load_jsonl, main)               *)
(*   src/gradio.py       the comparison UI (make_api_request,              *)
(*                       query_all_endpoints)                              *)
(* The programs share nothing, so each has its own specification:          *)
(* LoaderSpec and UISpec.                                                  *)
(***************************************************************************)
EXTENDS Integers, Sequences, FiniteSets, TLC

(***************************************************************************)
(* Bounds of the model.                                                    *)
(***************************************************************************)
\* An input file is a sequence of at most MaxSegs runs of equal lines.
MaxSegs == 2
\* A request that is answered takes 0..MaxLatency time units.
MaxLatency == 1
\* time.time() reads a value in 0..MaxTime.
MaxTime == 1
\* Width of hash() in bits (64 in CPython).
HashBits == 3

(***************************************************************************)
(* Program constants of the loader.                                        *)
(***************************************************************************)
batch_size == 100

(***************************************************************************)
(* The input file.  A line is one of five kinds:                           *)
(*   "text"      a JSON object whose "text" is a non-empty string          *)
(*   "empty"     a JSON object whose "text" is the empty string            *)
(*   "notext"    a JSON object without a "text" key                        *)
(*   "blank"     a line that strip() empties                               *)
(*   "malformed" a non-blank line json.loads rejects                       *)
(* A file is kept run-length encoded: a sequence of runs [kind, n] of n    *)
(* equal lines, so that files longer than one batch stay small states.     *)
(***************************************************************************)
LineKinds == {"text", "empty", "notext", "blank", "malformed"}
RunLens == {1, batch_size}
Runs == [kind : LineKinds, n : RunLens]
Files == UNION {[1..k -> Runs] : k \in 0..MaxSegs}

RECURSIVE RunsLen(_)
\* len() of a run-length encoded list.
RunsLen(d) == IF d = <<>> THEN 0 ELSE Head(d).n + RunsLen(Tail(d))

RECURSIVE RunsAt(_, _)
\* d[k] of a run-length encoded list, k counted from 0.
RunsAt(d, k) == IF k < Head(d).n THEN Head(d).kind ELSE RunsAt(Tail(d), k - Head(d).n)

\* A plausible slip: malformed lines skipped instead of raising
load_jsonl_lenient(f) ==
    [ok |-> TRUE, data |-> SelectSeq(f, LAMBDA r : r.kind \notin {"blank", "malformed"})]
\* load_jsonl: blank lines are skipped, json.loads raises on a malformed
\* line and the exception leaves the function.
load_jsonl(f) ==
    IF \E k \in 1..Len(f) : f[k].kind = "malformed"
    THEN [ok |-> FALSE, data |-> <<>>]
    ELSE [ok |-> TRUE, data |-> SelectSeq(f, LAMBDA r : r.kind # "blank")]

\* A plausible slip: a truthiness test, if not item.get("text")
HasTextNonEmpty(kind) == kind = "text"
\* "text" in item
HasText(kind) == kind \in {"text", "empty"}

\* item["text"], as the code of the string
TextCode(kind) == IF kind = "empty" THEN 0 ELSE 1

Times == 0..MaxTime
Pow2(n) == 2 ^ n
Abs(x) == IF x < 0 THEN -x ELSE x
\* hash() of the string f"{text}_{t}": a function of the string alone, with
\* a signed value of HashBits bits.
Hash(text, t) == ((text * 5 + t * 3 + 1) % Pow2(HashBits)) - Pow2(HashBits - 1)
\* abs(hash(f"{item['text']}_{time.time()}"))
PointId(text, t) == Abs(Hash(text, t))

Min(a, b) == IF a < b THEN a ELSE b

(***************************************************************************)
(* State of a loader run.                                                  *)
(*   file            the input file                                        *)
(*   collection      the ids of the points of the collection               *)
(*   collection0     the collection as the run found it                    *)
(*   pc              where main is                                         *)
(*   data, i, vectors, total_processed   main's locals; vectors is kept as *)
(*                   the number of its points and the set of their ids     *)
(*   j               index of the item the inner loop is at                *)
(*   skipped         number of "Skipping item" notices printed             *)
(*   log             the calls made to the vector store and the model      *)
(*   upsertSizes     len(points) of every upsert call                      *)
(*   written         ids of the points of the upserts that returned        *)
(*   failedAt        the call whose exception ended the run                *)
(*   reported        the points_count main printed                         *)
(***************************************************************************)
VARIABLES file, collection, collection0, pc, data, i, j, vectors,
          total_processed, skipped, log, upsertSizes, written, failedAt, reported

lvars == <<file, collection, collection0, pc, data, i, j, vectors,
           total_processed, skipped, log, upsertSizes, written, failedAt, reported>>

(***************************************************************************)
(* State of one submit of the comparison UI.                               *)
(*   upc           where query_all_endpoints is                            *)
(*   query         the text of the input box                               *)
(*   call          which of the three make_api_request calls is next       *)
(*   sent          the requests posted, in order: endpoint and payload     *)
(*   results       what the make_api_request calls returned, in order      *)
(*   now           the clock time.time() reads                             *)
(*   start_time, elapsed_time   locals of query_all_endpoints              *)
(*   latencies     how long each request took                              *)
(*   outputs       the eight output components of the page                 *)
(***************************************************************************)
VARIABLES upc, query, call, sent, results, now, start_time, elapsed_time,
          latencies, outputs

uvars == <<upc, query, call, sent, results, now, start_time, elapsed_time,
           latencies, outputs>>

vars == <<lvars, uvars>>

NoVectors == [n |-> 0, ids |-> {}]

\* A DataFrame, or None
NoFrame == [none |-> TRUE, rows |-> <<>>]
Frame(rows) == [none |-> FALSE, rows |-> rows]

\* The page as gr.Blocks builds it (lines 221-271).
InitialOutputs ==
    [retrieve_html |-> "<h3>Vector DB Results</h3><p>Submit a query to see results...</p>",
     generate_html |-> "<h3>LLM Response (No Context)</h3><p>Submit a query to see results...</p>",
     rag_html      |-> "<h3>RAG-Enhanced Response</h3><p>Submit a query to see results...</p>",
     retrieve_df   |-> Frame(<<>>),
     generate_df   |-> Frame(<<>>),
     rag_df        |-> Frame(<<>>),
     context_df    |-> Frame(<<>>),
     status        |-> "Ready to query"]


\* The points the collection holds before the run.
OldPoints == {0}

LoaderInit ==
    /\ file \in Files
    /\ collection = OldPoints
    /\ collection0 = collection
    /\ pc = "load"
    /\ data = <<>>
    /\ i = 0
    /\ j = 0
    /\ vectors = NoVectors
    /\ total_processed = 0
    /\ skipped = 0
    /\ log = <<>>
    /\ upsertSizes = <<>>
    /\ written = {}
    /\ failedAt = "none"
    /\ reported = -1
    \* the UI is not running
    /\ upc = "idle"
    /\ query = ""
    /\ call = 1
    /\ sent = <<>>
    /\ results = <<>>
    /\ now = 0
    /\ start_time = 0
    /\ elapsed_time = 0
    /\ latencies = <<>>
    /\ outputs = InitialOutputs

\* An exception leaves main: the run is over.
Abort(at) ==
    /\ pc' = "failed"
    /\ failedAt' = at

\* data = load_jsonl(path)
Load ==
    /\ pc = "load"
    /\ LET r == load_jsonl(file) IN
       IF r.ok
       THEN /\ data' = r.data
            /\ pc' = "recreate"
            /\ UNCHANGED failedAt
       ELSE /\ Abort("load")
            /\ UNCHANGED data
    /\ UNCHANGED uvars
    /\ UNCHANGED <<file, collection, collection0, i, j, vectors, total_processed,
                   skipped, log, upsertSizes, written, reported>>

\* client.recreate_collection(...)
Recreate ==
    /\ pc = "recreate"
    /\ collection' = {}
    /\ log' = Append(log, "recreate")
    /\ pc' = "loop"
    /\ UNCHANGED uvars
    /\ UNCHANGED <<file, collection0, data, i, j, vectors, total_processed,
                   skipped, upsertSizes, written, failedAt, reported>>

RecreateFail ==
    /\ pc = "recreate"
    /\ Abort("recreate")
    /\ UNCHANGED uvars
    /\ UNCHANGED <<file, collection, collection0, data, i, j, vectors, total_processed,
                   skipped, log, upsertSizes, written, reported>>

\* for i in range(0, len(data), batch_size): batch = data[i:i + batch_size]
BatchStart ==
    /\ pc = "loop"
    /\ IF i < RunsLen(data)
       THEN /\ vectors' = NoVectors
            /\ j' = i
            /\ pc' = "item"
       ELSE /\ pc' = "verify"
            /\ UNCHANGED <<vectors, j>>
    /\ UNCHANGED uvars
    /\ UNCHANGED <<file, collection, collection0, data, i, total_processed,
                   skipped, log, upsertSizes, written, failedAt, reported>>

BatchEnd == Min(i + batch_size, RunsLen(data))

\* if "text" not in item: print(...); continue
SkipItem ==
    /\ pc = "item"
    /\ j < BatchEnd
    /\ ~HasText(RunsAt(data, j))
    /\ skipped' = skipped + 1
    /\ j' = j + 1
    /\ UNCHANGED uvars
    /\ UNCHANGED <<file, collection, collection0, pc, data, i, vectors, total_processed,
                   log, upsertSizes, written, failedAt, reported>>

\* embedding = model.encode(item["text"]); vectors.append({id, vector, payload})
EncodeItem ==
    /\ pc = "item"
    /\ j < BatchEnd
    /\ HasText(RunsAt(data, j))
    /\ \E t \in Times :
        vectors' = [n   |-> vectors.n + 1,
                    ids |-> vectors.ids \cup {PointId(TextCode(RunsAt(data, j)), t)}]
    /\ log' = IF vectors.n = 0 THEN Append(log, "encode") ELSE log
    /\ j' = j + 1
    /\ UNCHANGED uvars
    /\ UNCHANGED <<file, collection, collection0, pc, data, i, total_processed,
                   skipped, upsertSizes, written, failedAt, reported>>

EncodeFail ==
    /\ pc = "item"
    /\ j < BatchEnd
    /\ HasText(RunsAt(data, j))
    /\ Abort("encode")
    /\ log' = IF vectors.n = 0 THEN Append(log, "encode") ELSE log
    /\ UNCHANGED uvars
    /\ UNCHANGED <<file, collection, collection0, data, i, j, vectors, total_processed,
                   skipped, upsertSizes, written, reported>>

\* A plausible slip: the upsert without the "if vectors" test
UpsertCallAlways ==
    /\ pc = "item"
    /\ j = BatchEnd
    /\ log' = Append(log, "upsert")
    /\ upsertSizes' = Append(upsertSizes, vectors.n)
    /\ pc' = "upserting"
    /\ UNCHANGED uvars
    /\ UNCHANGED <<file, collection, collection0, data, i, j, vectors, total_processed,
                   skipped, written, failedAt, reported>>

\* A plausible slip: the upsert sent without waiting for its return
UpsertCallNoWait ==
    /\ pc = "item"
    /\ j = BatchEnd
    /\ IF vectors.n > 0
       THEN /\ log' = Append(log, "upsert")
            /\ upsertSizes' = Append(upsertSizes, vectors.n)
            /\ collection' = collection \cup vectors.ids
       ELSE UNCHANGED <<log, upsertSizes, collection>>
    /\ i' = i + batch_size
    /\ pc' = "loop"
    /\ UNCHANGED uvars
    /\ UNCHANGED <<file, collection0, data, j, vectors, total_processed,
                   skipped, written, failedAt, reported>>

\* if vectors: client.upsert(collection_name, points=vectors) is called
UpsertCall ==
    /\ pc = "item"
    /\ j = BatchEnd
    /\ IF vectors.n > 0
       THEN /\ log' = Append(log, "upsert")
            /\ upsertSizes' = Append(upsertSizes, vectors.n)
            /\ pc' = "upserting"
            /\ UNCHANGED i
       ELSE /\ i' = i + batch_size
            /\ pc' = "loop"
            /\ UNCHANGED <<log, upsertSizes>>
    /\ UNCHANGED uvars
    /\ UNCHANGED <<file, collection, collection0, data, j, vectors, total_processed,
                   skipped, written, failedAt, reported>>

\* client.upsert returns; total_processed += len(vectors); next iteration
UpsertReturn ==
    /\ pc = "upserting"
    /\ collection' = collection \cup vectors.ids
    /\ written' = written \cup vectors.ids
    /\ total_processed' = total_processed + vectors.n
    /\ log' = Append(log, "upsert_ok")
    /\ i' = i + batch_size
    /\ pc' = "loop"
    /\ UNCHANGED uvars
    /\ UNCHANGED <<file, collection0, data, j, vectors, skipped, upsertSizes,
                   failedAt, reported>>

\* A plausible slip: the exception of upsert caught and the loop continued
UpsertFailContinue ==
    /\ pc = "upserting"
    /\ failedAt' = "upsert"
    /\ i' = i + batch_size
    /\ pc' = "loop"
    /\ UNCHANGED uvars
    /\ UNCHANGED <<file, collection, collection0, data, j, vectors, total_processed, skipped,
                   log, upsertSizes, written, reported>>

\* client.upsert raises (the store may or may not have applied the write)
UpsertFail ==
    /\ pc = "upserting"
    /\ collection' \in {collection, collection \cup vectors.ids}
    /\ Abort("upsert")
    /\ UNCHANGED uvars
    /\ UNCHANGED <<file, collection0, data, i, j, vectors, total_processed, skipped,
                   log, upsertSizes, written, reported>>

\* collection_info = client.get_collection(...); print counts
Verify ==
    /\ pc = "verify"
    /\ log' = Append(log, "info")
    /\ reported' = Cardinality(collection)
    /\ pc' = "done"
    /\ UNCHANGED uvars
    /\ UNCHANGED <<file, collection, collection0, data, i, j, vectors, total_processed,
                   skipped, upsertSizes, written, failedAt>>

VerifyFail ==
    /\ pc = "verify"
    /\ log' = Append(log, "info")
    /\ Abort("info")
    /\ UNCHANGED uvars
    /\ UNCHANGED <<file, collection, collection0, data, i, j, vectors, total_processed,
                   skipped, upsertSizes, written, reported>>

LoaderNext ==
    \/ Load
    \/ Recreate
    \/ RecreateFail
    \/ BatchStart
    \/ SkipItem
    \/ EncodeItem
    \/ EncodeFail
    \/ UpsertCall
    \/ UpsertReturn
    \/ UpsertFail
    \/ Verify
    \/ VerifyFail

(***************************************************************************)
(* The comparison UI: src/gradio.py.                                       *)
(***************************************************************************)
TOP_K == 3
MAX_TOKENS == 256
TEMPERATURE == "0.7"
\* requests.post(..., timeout=30)
REQUEST_TIMEOUT == 30

Endpoints == <<"retrieve", "generate", "rag">>
Queries == {"smartwatch battery life", ""}

RagPayload(q) ==
    [query |-> q, top_k |-> TOP_K, temperature |-> TEMPERATURE,
     max_tokens |-> MAX_TOKENS, include_context |-> TRUE]
\* A plausible slip: one payload for every endpoint
payload_same(endpoint, q) == RagPayload(q)
\* make_api_request: payload, by endpoint
payload(endpoint, q) ==
    IF endpoint = "retrieve" THEN [query |-> q, top_k |-> TOP_K]
    ELSE IF endpoint = "generate"
    THEN [query |-> q, temperature |-> TEMPERATURE, max_tokens |-> MAX_TOKENS]
    ELSE RagPayload(q)

(***************************************************************************)
(* Response bodies.  A JSON value is kept by what the code can tell of it: *)
(* json is "object", "null", "list", or "invalid" (not JSON); for an       *)
(* object, error says whether it has an "error" key, and each recognised   *)
(* field is "absent", "null" (JSON null) or its value.  A list field is    *)
(* [kind, items]; an item is a dict of source, score, text (shape "dict")  *)
(* or some other JSON value (shape "other").                               *)
(***************************************************************************)
NoList == [kind |-> "absent", items |-> <<>>]
NullList == [kind |-> "null", items |-> <<>>]
ListOf(items) == [kind |-> "list", items |-> items]

Item(shape, source, score, text) ==
    [shape |-> shape, source |-> source, score |-> score, text |-> text]
GoodItem == Item("dict", "doc.txt", "0.8765", "some text")
BareItem == Item("dict", "absent", "absent", "absent")
NullScoreItem == Item("dict", "doc.txt", "null", "some text")
NullTextItem == Item("dict", "doc.txt", "0.8765", "null")
NonDictItem == Item("other", "absent", "absent", "absent")

ListVals ==
    {NoList, NullList, ListOf(<<>>), ListOf(<<GoodItem>>), ListOf(<<GoodItem, BareItem>>),
     ListOf(<<NullScoreItem>>), ListOf(<<NullTextItem>>), ListOf(<<NonDictItem>>)}

Body(json, error, errmsg, details, res, ctx, model, answer, count) ==
    [json |-> json, error |-> error, errmsg |-> errmsg, details |-> details,
     results |-> res, contexts |-> ctx,
     model |-> model, answer |-> answer, context_count |-> count]

Object(res, ctx, model, answer, count) ==
    Body("object", FALSE, "", "", res, ctx, model, answer, count)
NonObject(json) ==
    Body(json, FALSE, "", "", NoList, NoList, "absent", "absent", "absent")
\* {"error": msg, "details": details}
ErrorObject(msg, details) ==
    Body("object", TRUE, msg, details, NoList, NoList, "absent", "absent", "absent")

CommonBodies ==
    {NonObject("invalid"), NonObject("null"), NonObject("list"),
     ErrorObject("server says no", "")}
Bodies(endpoint) ==
    CommonBodies \cup
    (IF endpoint = "retrieve"
     THEN {Object(lv, NoList, "absent", "absent", "absent") : lv \in ListVals}
     ELSE IF endpoint = "generate"
     THEN {Object(NoList, NoList, v, v, "absent") : v \in {"absent", "null", "llm"}}
     ELSE {Object(NoList, lv, "llm", "an answer", "2") : lv \in ListVals}
          \cup {Object(NoList, NoList, "absent", "absent", "absent")})

\* What the server answers: a status and a body.
Responses(endpoint) ==
    {[status |-> 200, body |-> b] : b \in Bodies(endpoint)}
    \cup {[status |-> 500, body |-> NonObject("invalid")]}

\* make_api_request: what it returns for a response that arrived
response_result(resp) ==
    IF resp.status = 200
    THEN IF resp.body.json = "invalid"
         THEN ErrorObject("Request Error: Expecting value", "")
         ELSE resp.body
    ELSE ErrorObject("API Error: " \o ToString(resp.status), "response text")

\* make_api_request: except Exception as e
exception_result(e) == ErrorObject("Request Error: " \o e, "")

(***************************************************************************)
(* query_all_endpoints: the processing of the three results.               *)
(***************************************************************************)
\* "error" in r raises TypeError when r is None
InRaises(r) == r.json = "null"
\* "error" in r
ErrorIn(r) == r.json = "object" /\ r.error
\* key in r, for a recognised list field lv of r
KeyIn(r, lv) == r.json = "object" /\ lv.kind # "absent"
\* r.get raises AttributeError when r is no dict
GetRaises(r) == r.json # "object"

\* One turn of a loop over results or contexts raises: item.get on a
\* non-dict, f"{score:.4f}" of None, None[:n]
ItemRaises(item, sliced) ==
    \/ item.shape # "dict"
    \/ item.score = "null"
    \/ sliced /\ item.text = "null"
\* for i, item in enumerate(lv) raises: enumerate(None), or a turn does
LoopRaises(lv, sliced) ==
    \/ lv.kind = "null"
    \/ \E n \in 1..Len(lv.items) : ItemRaises(lv.items[n], sliced)

\* d.get(key, default), shown in an f-string
Get(v, default) == IF v = "absent" THEN default ELSE IF v = "null" THEN "None" ELSE v
\* d.get(key, default), kept as a value
GetValue(v, default) == IF v = "absent" THEN default ELSE v

RECURSIVE Join(_)
Join(ss) == IF ss = <<>> THEN "" ELSE Head(ss) \o Join(Tail(ss))

\* lines 85-95
retrieve_df_raises(r) ==
    InRaises(r) \/ (~ErrorIn(r) /\ KeyIn(r, r.results) /\ LoopRaises(r.results, TRUE))
retrieve_df(r) ==
    IF ~ErrorIn(r) /\ KeyIn(r, r.results)
    THEN Frame([n \in 1..Len(r.results.items) |->
                  LET it == r.results.items[n] IN
                  [num |-> n, source |-> GetValue(it.source, "Unknown"),
                   score |-> GetValue(it.score, "0.0000"),
                   preview |-> GetValue(it.text, "") \o "..."]])
    ELSE NoFrame

ErrorHtml(r) == "<p>Error: " \o r.errmsg \o "</p>"

\* lines 98-109
retrieve_html_raises(r) ==
    InRaises(r) \/ (~ErrorIn(r) /\ (GetRaises(r) \/ LoopRaises(r.results, TRUE)))
retrieve_html(r) ==
    "<h3>Vector DB Results</h3>" \o
    (IF ErrorIn(r) THEN ErrorHtml(r)
     ELSE Join([n \in 1..Len(r.results.items) |->
                  LET it == r.results.items[n] IN
                  "<div><strong>Result " \o ToString(n) \o ":</strong> "
                  \o GetValue(it.source, "Unknown")
                  \o " (Score: " \o GetValue(it.score, "0.0000") \o ")<br>"
                  \o "<p>" \o GetValue(it.text, "") \o "...</p></div>"]))

\* lines 112-121
generate_html_raises(r) == InRaises(r) \/ (~ErrorIn(r) /\ GetRaises(r))
generate_html(r) ==
    "<h3>LLM Response (No Context)</h3>" \o
    (IF ErrorIn(r) THEN ErrorHtml(r)
     ELSE "<div><strong>Model:</strong> " \o Get(r.model, "Unknown") \o "<br><br>"
          \o "<p>" \o Get(r.answer, "No answer provided.") \o "</p></div>")

\* lines 124-136
rag_html_raises(r) == InRaises(r) \/ (~ErrorIn(r) /\ GetRaises(r))
rag_html(r) ==
    "<h3>RAG-Enhanced Response</h3>" \o
    (IF ErrorIn(r) THEN ErrorHtml(r)
     ELSE "<div><strong>Model:</strong> " \o Get(r.model, "Unknown") \o "<br>"
          \o "<em>Used " \o Get(r.context_count, "0") \o " context documents</em><br><br>"
          \o "<p>" \o Get(r.answer, "No answer provided.") \o "</p></div>")

\* lines 139-145
generate_df_raises(r) == InRaises(r) \/ (~ErrorIn(r) /\ GetRaises(r))
generate_df(r, q) ==
    IF ~ErrorIn(r)
    THEN Frame(<<[model |-> GetValue(r.model, "Unknown"), query |-> q,
                  answer |-> GetValue(r.answer, "No answer provided.")]>>)
    ELSE NoFrame

\* lines 147-154
rag_df_raises(r) == InRaises(r) \/ (~ErrorIn(r) /\ GetRaises(r))
rag_df(r, q) ==
    IF ~ErrorIn(r)
    THEN Frame(<<[model |-> GetValue(r.model, "Unknown"), query |-> q,
                  count |-> GetValue(r.context_count, "0"),
                  answer |-> GetValue(r.answer, "No answer provided.")]>>)
    ELSE NoFrame

\* lines 157-167
context_df_raises(r) ==
    InRaises(r) \/ (~ErrorIn(r) /\ KeyIn(r, r.contexts) /\ LoopRaises(r.contexts, FALSE))
context_df(r) ==
    IF ~ErrorIn(r) /\ KeyIn(r, r.contexts)
    THEN Frame([n \in 1..Len(r.contexts.items) |->
                  LET it == r.contexts.items[n] IN
                  [num |-> n, source |-> GetValue(it.source, "Unknown"),
                   score |-> GetValue(it.score, "0.0000"),
                   text |-> GetValue(it.text, "No text available")]])
    ELSE NoFrame

\* status_msg = f"Query completed in {elapsed_time:.2f} seconds"
status_msg(elapsed) == "Query completed in " \o ToString(elapsed) \o " seconds"

\* An exception leaves query_all_endpoints while it processes the results.
ProcessingRaises(rs) ==
    \/ retrieve_df_raises(rs[1])
    \/ retrieve_html_raises(rs[1])
    \/ generate_html_raises(rs[2])
    \/ rag_html_raises(rs[3])
    \/ generate_df_raises(rs[2])
    \/ rag_df_raises(rs[3])
    \/ context_df_raises(rs[3])

\* The tuple query_all_endpoints returns (lines 171-180).
Returned(rs, q, elapsed) ==
    [retrieve_html |-> retrieve_html(rs[1]),
     generate_html |-> generate_html(rs[2]),
     rag_html      |-> rag_html(rs[3]),
     retrieve_df   |-> retrieve_df(rs[1]),
     generate_df   |-> generate_df(rs[2], q),
     rag_df        |-> rag_df(rs[3], q),
     context_df    |-> context_df(rs[3]),
     status        |-> status_msg(elapsed)]

UIInit ==
    /\ upc = "idle"
    /\ query = ""
    /\ call = 1
    /\ sent = <<>>
    /\ results = <<>>
    /\ start_time = 0
    /\ elapsed_time = 0
    /\ latencies = <<>>
    /\ outputs = InitialOutputs
    /\ now \in 0..1
    \* the loader is not running
    /\ file = <<>>
    /\ collection = {}
    /\ collection0 = {}
    /\ pc = "idle"
    /\ data = <<>>
    /\ i = 0
    /\ j = 0
    /\ vectors = NoVectors
    /\ total_processed = 0
    /\ skipped = 0
    /\ log = <<>>
    /\ upsertSizes = <<>>
    /\ written = {}
    /\ failedAt = "none"
    /\ reported = -1

\* submit_btn.click: query_all_endpoints(query) starts; start_time = time.time()
Submit ==
    /\ upc = "idle"
    /\ \E q \in Queries : query' = q
    /\ start_time' = now
    /\ upc' = "call"
    /\ UNCHANGED <<call, sent, results, now, elapsed_time, latencies, outputs>>
    /\ UNCHANGED lvars

\* make_api_request(endpoint, query): requests.post(url, data=json.dumps(payload))
PostRequest ==
    /\ upc = "call"
    /\ call <= Len(Endpoints)
    /\ sent' = Append(sent, [endpoint |-> Endpoints[call],
                             payload |-> payload(Endpoints[call], query)])
    /\ upc' = "wait"
    /\ UNCHANGED <<query, call, results, now, start_time, elapsed_time, latencies, outputs>>
    /\ UNCHANGED lvars

\* A plausible slip: a request that failed is posted again
ReturnRetry(r, d) ==
    /\ latencies' = Append(latencies, d)
    /\ now' = now + d
    /\ IF r.error
       THEN UNCHANGED <<results, call>>
       ELSE results' = Append(results, r) /\ call' = call + 1
    /\ upc' = "call"
    /\ UNCHANGED <<query, sent, start_time, elapsed_time, outputs>>
    /\ UNCHANGED lvars

\* make_api_request returns r after d time units
Return(r, d) ==
    /\ results' = Append(results, r)
    /\ latencies' = Append(latencies, d)
    /\ now' = now + d
    /\ call' = call + 1
    /\ upc' = "call"
    /\ UNCHANGED <<query, sent, start_time, elapsed_time, outputs>>
    /\ UNCHANGED lvars

\* the response arrives: lines 61-67
ReceiveResponse ==
    /\ upc = "wait"
    /\ \E resp \in Responses(Endpoints[call]), d \in 0..MaxLatency :
        Return(response_result(resp), d)

\* requests.post raises Timeout after 30 time units: line 68
RequestTimeout ==
    /\ upc = "wait"
    /\ Return(exception_result("Read timed out."), REQUEST_TIMEOUT)

\* requests.post raises another exception: line 68
RequestException ==
    /\ upc = "wait"
    /\ \E d \in 0..MaxLatency : Return(exception_result("Connection refused"), d)

\* lines 81-180: elapsed_time, the processing of the results, the return;
\* when an exception leaves the function the page keeps what it showed.
Render ==
    /\ upc = "call"
    /\ call > Len(Endpoints)
    /\ elapsed_time' = now - start_time
    /\ IF ProcessingRaises(results)
       THEN /\ upc' = "raised"
            /\ UNCHANGED outputs
       ELSE /\ upc' = "done"
            /\ outputs' = Returned(results, query, now - start_time)
    /\ UNCHANGED <<query, call, sent, results, now, start_time, latencies>>
    /\ UNCHANGED lvars

UINext ==
    \/ Submit
    \/ PostRequest
    \/ ReceiveResponse
    \/ RequestTimeout
    \/ RequestException
    \/ Render

\* A run of the loader; the UI is not running.
LoaderSpec == LoaderInit /\ [][LoaderNext]_vars

\* One submit of the UI; the loader is not running.
UISpec == UIInit /\ [][UINext]_vars

(***************************************************************************)
(* Claims about the loader.                                                *)
(***************************************************************************)
RECURSIVE SumSeq(_)
\* The sum of a sequence of numbers.
SumSeq(s) == IF s = <<>> THEN 0 ELSE Head(s) + SumSeq(Tail(s))

RECURSIVE CountKinds(_, _)
\* Number of lines of f whose kind is in K.
CountKinds(f, K) ==
    IF f = <<>> THEN 0
    ELSE (IF Head(f).kind \in K THEN Head(f).n ELSE 0) + CountKinds(Tail(f), K)

RecordKinds == {"text", "empty", "notext"}
\* The records of the input file: its non-blank lines.
NumRecords == CountKinds(file, RecordKinds)
\* The records that have a "text" key, empty or not.
NumWithTextKey == CountKinds(file, {"text", "empty"})
\* The records whose "text" is a non-empty string.
NumWithNonEmptyText == CountKinds(file, {"text"})
ValidFile == CountKinds(file, {"malformed"}) = 0

CeilDiv(a, b) == (a + b - 1) \div b

RECURSIVE RecordAt(_, _)
\* The k-th record of the file (from 0), blank lines not counted.
RecordAt(f, k) ==
    IF Head(f).kind = "blank" THEN RecordAt(Tail(f), k)
    ELSE IF k < Head(f).n THEN Head(f).kind
    ELSE RecordAt(Tail(f), k - Head(f).n)

\* The 100-record slices of the input that hold a record with a "text" key.
SlicesWithText ==
    {s \in 0..(CeilDiv(NumRecords, 100) - 1) :
        \E k \in (s * 100)..(Min((s + 1) * 100, NumRecords) - 1) :
            RecordAt(file, k) \in {"text", "empty"}}

\* C1 (as amended): after a completed run on a valid file the points passed
\* to upsert calls are as many as the records that have a "text" key, empty
\* or not, and skipped records + upserted points = input records.
C1_UpsertedEqualsTextKeyed ==
    pc = "done" =>
        /\ SumSeq(upsertSizes) = NumWithTextKey
        /\ total_processed = NumWithTextKey
        /\ skipped + SumSeq(upsertSizes) = NumRecords

\* C1 (as stated): the points passed to upsert calls are as many as the
\* records with a non-empty text field.
C1_UpsertedEqualsNonEmptyText ==
    pc = "done" =>
        /\ SumSeq(upsertSizes) = NumWithNonEmptyText
        /\ skipped + SumSeq(upsertSizes) = NumRecords

C1_Witness ==
    /\ pc = "done"
    /\ CountKinds(file, {"empty"}) > 0
    /\ CountKinds(file, {"notext"}) > 0
    /\ skipped > 0
    /\ SumSeq(upsertSizes) > 0

\* C2 (as amended): a completed run issues one upsert call for every
\* 100-record slice of the input that holds at least one qualifying record:
\* at least ceil(N/100) calls, exactly ceil(N/100) when every record
\* qualifies; the per-call point counts sum to N.
C2_OneCallPerNonEmptySlice ==
    pc = "done" =>
        /\ Len(upsertSizes) = Cardinality(SlicesWithText)
        /\ Len(upsertSizes) >= CeilDiv(NumWithTextKey, 100)
        /\ (NumWithTextKey = NumRecords => Len(upsertSizes) = CeilDiv(NumWithTextKey, 100))
        /\ \A k \in 1..Len(upsertSizes) : upsertSizes[k] \in 1..100
        /\ SumSeq(upsertSizes) = NumWithTextKey

\* C2 (as stated): a completed run issues exactly ceil(N/100) upsert calls
\* whose point counts sum to N.
C2_CeilCalls ==
    pc = "done" =>
        /\ Len(upsertSizes) = CeilDiv(NumWithTextKey, 100)
        /\ SumSeq(upsertSizes) = NumWithTextKey

C2_Witness ==
    /\ pc = "done"
    /\ NumWithTextKey = 100
    /\ NumWithTextKey < NumRecords
    /\ upsertSizes = <<99, 1>>

\* The calls of a run in order: recreate, then (encode, upsert, its return)
\* per batch, then info.
Follows(k, before) == k > 1 /\ log[k - 1] \in before
LogInOrder ==
    \A k \in 1..Len(log) :
        /\ (k = 1) <=> (log[k] = "recreate")
        /\ log[k] = "encode" => Follows(k, {"recreate", "upsert_ok"})
        /\ log[k] = "upsert" => Follows(k, {"encode"})
        /\ log[k] = "upsert_ok" => Follows(k, {"upsert"})
        /\ log[k] = "info" => k = Len(log) /\ Follows(k, {"recreate", "upsert_ok"})

\* C5: a run makes its calls in the order recreate, (encode-batch,
\* upload-batch)*, verify: the collection is recreated once and before any
\* upsert, a batch is encoded only when the previous upsert has returned, and
\* the collection-info query is made once, after the last upsert, by a run
\* that reaches the end.
C5_LinearOrder ==
    /\ LogInOrder
    /\ pc = "upserting" => log # <<>> /\ log[Len(log)] = "upsert"
    /\ (log # <<>> /\ log[Len(log)] = "upsert") => pc \in {"upserting", "failed"}
    /\ pc \in {"loop", "item", "upserting", "verify"} => log # <<>> /\ log[1] = "recreate"
    /\ pc = "done" =>
        /\ Len(log) >= 2
        /\ log[1] = "recreate"
        /\ log[Len(log)] = "info"
        /\ Cardinality({k \in 1..Len(log) : log[k] = "upsert"}) = Len(upsertSizes)
        /\ Cardinality({k \in 1..Len(log) : log[k] = "upsert_ok"}) = Len(upsertSizes)

C5_Witness ==
    /\ pc = "done"
    /\ Len(upsertSizes) = 2
    /\ log = <<"recreate", "encode", "upsert", "upsert_ok",
               "encode", "upsert", "upsert_ok", "info">>

\* C6: when an upsert call fails the run is over: the failing call is the
\* last call made (no retry, no later encode or upsert, no info query), and
\* the points of the upserts that returned are in the collection.
C6_UpsertFailureAborts ==
    failedAt = "upsert" =>
        /\ pc = "failed"
        /\ log[Len(log)] = "upsert"
        /\ Cardinality({k \in 1..Len(log) : log[k] = "upsert"}) = Len(upsertSizes)
        /\ Cardinality({k \in 1..Len(log) : log[k] = "upsert_ok"}) = Len(upsertSizes) - 1
        /\ \A k \in 1..Len(log) : log[k] # "info"
        /\ reported = -1
        /\ written \subseteq collection

C6_Witness ==
    /\ failedAt = "upsert"
    /\ written # {}
    /\ Len(upsertSizes) = 2
    /\ total_processed = upsertSizes[1]

\* C8: no upsert replaces a point written earlier in the run: the ids of all
\* upserted points are pairwise distinct, and a completed run leaves as many
\* points in the collection as it upserted.
C8_PointsWrittenOnce ==
    /\ pc = "upserting" =>
        /\ Cardinality(vectors.ids) = vectors.n
        /\ vectors.ids \cap written = {}
    /\ pc = "done" =>
        /\ Cardinality(collection) = SumSeq(upsertSizes)
        /\ reported = total_processed

\* C10: a file with a malformed line fails the run in load_jsonl: no
\* recreate-collection and no upsert call is made and the collection is as
\* the run found it.
C10_MalformedFailsBeforeRecreate ==
    ~ValidFile =>
        /\ pc \in {"load", "failed"}
        /\ pc = "failed" => failedAt = "load"
        /\ log = <<>>
        /\ upsertSizes = <<>>
        /\ collection = collection0

C10_Witness ==
    /\ ~ValidFile
    /\ pc = "failed"
    /\ collection0 # {}
    /\ CountKinds(file, {"text"}) > 0

(***************************************************************************)
(* Claims about the comparison UI.                                         *)
(***************************************************************************)
\* What make_api_request can return for the e-th endpoint.
AllResults(e) ==
    {response_result(r) : r \in Responses(Endpoints[e])}
    \cup {exception_result("Read timed out."), exception_result("Connection refused")}

\* The output components that show the e-th endpoint.
PanelsOf(e, out) ==
    IF e = 1 THEN <<out.retrieve_html, out.retrieve_df>>
    ELSE IF e = 2 THEN <<out.generate_html, out.generate_df>>
    ELSE <<out.rag_html, out.rag_df, out.context_df>>

\* What the page shows after a submit whose calls returned rs.
Shown(rs, q, elapsed) ==
    IF ProcessingRaises(rs) THEN InitialOutputs ELSE Returned(rs, q, elapsed)

IsApiError(r) == r.error /\ r.errmsg = "API Error: 500"

\* C3: what the panels of one endpoint show depends on that endpoint's
\* outcome alone: had any other endpoint answered differently, they would
\* show the same; and an endpoint that answered a non-200 status has an
\* error in its panel.
C3_PanelsIndependent ==
    upc \in {"done", "raised"} =>
        /\ \A e \in 1..3 : \A o \in (1..3) \ {e} : \A x \in AllResults(o) :
              PanelsOf(e, Shown([results EXCEPT ![o] = x], query, elapsed_time))
                  = PanelsOf(e, outputs)
        /\ \A e \in 1..3 : IsApiError(results[e]) =>
              PanelsOf(e, outputs)[1] = PanelsOf(e, Returned(results, query, elapsed_time))[1]

\* C4: whatever the endpoints answer, query_all_endpoints returns its eight
\* outputs: no exception leaves it.
C4_NoUnhandledException ==
    /\ upc # "raised"
    /\ upc = "done" => outputs = Returned(results, query, elapsed_time)

\* C7: every request carries the payload of its endpoint: retrieve {query,
\* top_k}, generate {query, temperature, max_tokens}, rag {query, top_k,
\* temperature, max_tokens, include_context = true}, and the query is the
\* caller's; any other endpoint name gets the rag payload.
C7_PayloadShapes ==
    /\ \A n \in 1..Len(sent) :
        LET p == sent[n].payload
            e == sent[n].endpoint
        IN  /\ p.query = query
            /\ e = "retrieve" => DOMAIN p = {"query", "top_k"} /\ p.top_k = 3
            /\ e = "generate" =>
                /\ DOMAIN p = {"query", "temperature", "max_tokens"}
                /\ p.temperature = "0.7"
                /\ p.max_tokens = 256
            /\ e = "rag" =>
                /\ DOMAIN p = {"query", "top_k", "temperature", "max_tokens",
                               "include_context"}
                /\ p.top_k = 3
                /\ p.temperature = "0.7"
                /\ p.max_tokens = 256
                /\ p.include_context = TRUE
    /\ upc # "idle" => \A e \in {"retrieve", "generate", "rag", "other"} :
                           payload(e, query).query = query

C7_Witness ==
    /\ Len(sent) = 3
    /\ query # ""
    /\ sent[3].endpoint = "rag"

\* C9: a submit posts three requests, to retrieve, generate and rag in this
\* order, each after the one before has returned or failed; none is posted
\* twice, all three are posted whatever the earlier ones returned, and the
\* elapsed time spans the three requests.
C9_ThreeSequentialRequests ==
    /\ Len(sent) <= 3
    /\ \A n \in 1..Len(sent) : sent[n].endpoint = Endpoints[n]
    /\ Len(results) <= Len(sent)
    /\ Len(sent) <= Len(results) + 1
    /\ (upc = "wait") <=> (Len(sent) = Len(results) + 1)
    /\ upc \in {"done", "raised"} =>
        /\ Len(sent) = 3
        /\ Len(results) = 3
        /\ Len(latencies) = 3
        /\ elapsed_time = SumSeq(latencies)
        /\ elapsed_time = now - start_time

C9_Witness ==
    /\ upc = "done"
    /\ Len(sent) = 3
    /\ results[1].error
    /\ latencies[1] = 30
    /\ IsApiError(results[2])
    /\ ~results[3].error

====
